---- MODULE Spec2Model ----
(***************************************************************************)
(* A model of the web-application scaffold: the Server class (server.py)   *)
(* and the api module (api.py) with its command-line launcher.             *)
(*                                                                         *)
(* Two operating-system processes are modelled.  "main" is the process     *)
(* that loads api.py, either as a script (python api.py, __name__ is       *)
(* "__main__") or as a module imported by other code (__name__ is "api").  *)
(* "worker" is the process the ASGI runner spawns in reload mode; it       *)
(* imports the application through the import string.                      *)
(***************************************************************************)
EXTENDS Integers, Sequences, FiniteSets, TLC

VARIABLES
    name,       \* name[p]: the module name api.py is executed under in process p
    pc,         \* pc[p]: position of process p
    server,     \* server[p]: the module-level Server object of process p
    argv,       \* the command line of the main process
    lastCall,   \* record of the last Server method call in the main process
    runCall,    \* the arguments of the last uvicorn.run invocation
    included,   \* the root router's routes at the last app.include_router
    ls,         \* the lifespan context of the current run of the runner
    resp        \* the request last handled by the served application, with its response

vars == <<name, pc, server, argv, lastCall, runCall, included, ls, resp>>

Proc == {"main", "worker"}

-----------------------------------------------------------------------------
(* Bounds of the model.                                                    *)

\* add_router is called while the root router holds at most this many routes
MaxRootRoutes == 3
\* routers are included while the application's route table stays within this size
MaxAppRoutes == 9

-----------------------------------------------------------------------------
(* Sequences.                                                              *)

RECURSIVE Count(_, _)
Count(s, x) ==
    IF s = <<>> THEN 0
    ELSE (IF Head(s) = x THEN 1 ELSE 0) + Count(Tail(s), x)

Range(s) == {s[i] : i \in 1..Len(s)}

RECURSIVE MapPrefix(_, _)
\* the routes of s, each re-registered under prefix
MapPrefix(prefix, s) ==
    IF s = <<>> THEN <<>>
    ELSE <<[path |-> prefix \o Head(s).path, endpoint |-> Head(s).endpoint]>>
         \o MapPrefix(prefix, Tail(s))

-----------------------------------------------------------------------------
(* The Server object.                                                      *)

\* Python's None as the value of Server.app
None == [is_none |-> TRUE, routes |-> <<>>, exception_handlers |-> {},
         user_middleware |-> <<>>, debug |-> FALSE]

\* FastAPI(...): the documentation routes at the configured URLs and the
\* framework's default exception handlers
FastAPI(debug) ==
    [is_none |-> FALSE,
     routes |-> << [path |-> "/api/openapi.json", endpoint |-> "openapi"],
                   [path |-> "/api/docs", endpoint |-> "swagger_ui_html"],
                   [path |-> "/api/redoc", endpoint |-> "redoc_html"] >>,
     exception_handlers |->
         { [cls |-> "HTTPException", handler |-> "http_exception_handler"],
           [cls |-> "RequestValidationError",
            handler |-> "request_validation_exception_handler"] },
     user_middleware |-> <<>>,
     debug |-> debug]

\* APIRouter(prefix=...)
APIRouter(prefix) == [prefix |-> prefix, routes |-> <<>>]

\* the module-level name `server` before line 19 has run
NoServer ==
    [constructed |-> FALSE, title |-> "", version |-> "", debug |-> FALSE,
     app |-> None, root_router |-> APIRouter("")]

\* Server.__init__ with its default arguments
ServerInit ==
    [constructed |-> TRUE, title |-> "template API", version |-> "0.1.0",
     debug |-> FALSE, app |-> FastAPI(FALSE), root_router |-> APIRouter("/api")]

\* router.get(path)(endpoint): the route is stored under the router's prefix
RouterGet(router, path, endpoint) ==
    [router EXCEPT !.routes =
        Append(@, [path |-> router.prefix \o path, endpoint |-> endpoint])]

\* router.include_router(other, prefix=prefix): every route of other is
\* re-registered on router, under router's own prefix and the given one
RouterInclude(router, other, prefix) ==
    [router EXCEPT !.routes = @ \o MapPrefix(router.prefix \o prefix, other.routes)]

\* app.include_router(router): every route of router is added to the
\* application's route table (the application's own router has no prefix)
AppInclude(app, router) ==
    [app EXCEPT !.routes = @ \o MapPrefix("", router.routes)]

\* app.add_middleware(cls, ...): inserted in front of the user middleware
AppAddMiddleware(app, cls) ==
    [app EXCEPT !.user_middleware = <<cls>> \o @]

\* app.exception_handler(cls)(handler): the entry for cls is set
AppExceptionHandler(app, cls, handler) ==
    [app EXCEPT !.exception_handlers =
        {h \in @ : h.cls # cls} \cup {[cls |-> cls, handler |-> handler]}]

-----------------------------------------------------------------------------
(* Server methods.  Each operator returns the Server object after the      *)
(* call, whether RuntimeError was raised, the framework calls made, in     *)
(* order, and the uvicorn.run invocation if one was made.                  *)

NoRun ==
    [called |-> FALSE, target |-> [kind |-> "", value |-> ""],
     host |-> "", port |-> 0, reload |-> FALSE, log_level |-> ""]

\* raise RuntimeError("Application not created. Call create_app() first.")
RaiseRuntimeError(s) ==
    [server |-> s, raised |-> TRUE, events |-> <<>>, run |-> NoRun]

Return(s, events, run) ==
    [server |-> s, raised |-> FALSE, events |-> events, run |-> run]

\* add_router without its check of self.app
add_router_unguarded(s, router, path) ==
    Return([s EXCEPT !.root_router = RouterInclude(@, router, path)],
           <<"root_router.include_router">>, NoRun)

add_router(s, router, path) ==
    IF s.app.is_none
    THEN RaiseRuntimeError(s)
    ELSE Return([s EXCEPT !.root_router = RouterInclude(@, router, path)],
                <<"root_router.include_router">>, NoRun)

get_root_router(s) == s.root_router

get_app(s) ==
    IF s.app.is_none
    THEN RaiseRuntimeError(s)
    ELSE Return(s, <<>>, NoRun)

setup_routers(s) ==
    IF s.app.is_none
    THEN RaiseRuntimeError(s)
    ELSE Return([s EXCEPT !.app = AppInclude(@, s.root_router)],
                <<"app.include_router">>, NoRun)

\* uvicorn.run(target, host=..., port=..., reload=..., log_level=...)
UvicornRun(target, host, port, reload, log_level) ==
    [called |-> TRUE, target |-> target, host |-> host, port |-> port,
     reload |-> reload, log_level |-> log_level]

ImportStringTarget(import_string) == [kind |-> "import_string", value |-> import_string]
AppTarget == [kind |-> "app", value |-> "self.app"]

\* start_server without its _setup_routers call
start_server_run_first(s, host, port, reload, log_level, import_string) ==
    IF s.app.is_none
    THEN RaiseRuntimeError(s)
    ELSE LET run == IF reload
                    THEN UvicornRun(ImportStringTarget(import_string),
                                    host, port, reload, log_level)
                    ELSE UvicornRun(AppTarget, host, port, FALSE, log_level)
         IN  Return(s, <<"uvicorn.run">>, run)

\* start_server that does not pass port on in its non-reload branch
start_server_default_port(s, host, port, reload, log_level, import_string) ==
    IF s.app.is_none
    THEN RaiseRuntimeError(s)
    ELSE LET setup == setup_routers(s)
         IN  IF setup.raised THEN setup
             ELSE LET run ==
                          IF reload
                          THEN UvicornRun(ImportStringTarget(import_string),
                                          host, port, reload, log_level)
                          ELSE UvicornRun(AppTarget, host, 8000, FALSE, log_level)
                  IN  Return(setup.server, setup.events \o <<"uvicorn.run">>, run)

start_server(s, host, port, reload, log_level, import_string) ==
    IF s.app.is_none
    THEN RaiseRuntimeError(s)
    ELSE LET setup == setup_routers(s)
         IN  IF setup.raised THEN setup
             ELSE LET run ==
                          IF reload
                          THEN UvicornRun(ImportStringTarget(import_string),
                                          host, port, reload, log_level)
                          ELSE UvicornRun(AppTarget, host, port, FALSE, log_level)
                  IN  Return(setup.server, setup.events \o <<"uvicorn.run">>, run)

-----------------------------------------------------------------------------
(* Exceptions and their dispatch to the registered handlers.               *)

\* no exception
NoExc == [cls |-> "", msg |-> "", status_code |-> 0]

\* type(exc).__mro__, as far as handlers can be registered for it
Mro(cls) ==
    CASE cls = "ValueError" -> <<"ValueError", "Exception">>
      [] cls = "UnicodeDecodeError" ->
             <<"UnicodeDecodeError", "UnicodeError", "ValueError", "Exception">>
      [] cls = "KeyError" -> <<"KeyError", "LookupError", "Exception">>
      [] cls = "RuntimeError" -> <<"RuntimeError", "Exception">>
      [] cls = "HTTPException" -> <<"HTTPException", "Exception">>
      [] cls = "RequestValidationError" ->
             <<"RequestValidationError", "ValidationException", "Exception">>
      [] OTHER -> <<cls, "Exception">>

IsSubclass(cls, base) == base \in Range(Mro(cls))

\* the exceptions an endpoint registered by other code may raise
Raisable ==
    { [cls |-> "ValueError", msg |-> "bad input", status_code |-> 0],
      [cls |-> "UnicodeDecodeError", msg |-> "invalid start byte", status_code |-> 0],
      [cls |-> "KeyError", msg |-> "'k'", status_code |-> 0],
      [cls |-> "RuntimeError", msg |-> "boom", status_code |-> 0],
      [cls |-> "HTTPException", msg |-> "Forbidden", status_code |-> 403],
      [cls |-> "RequestValidationError", msg |-> "field required", status_code |-> 0] }

\* the router's not_found: raise HTTPException(status_code=404)
NotFound == [cls |-> "HTTPException", msg |-> "Not Found", status_code |-> 404]

JSONResponse(status_code, content, via) ==
    [status_code |-> status_code, content |-> content, via |-> via]

value_error_handler(exc) ==
    JSONResponse(400,
                 [error |-> "Validation Error", detail |-> exc.msg, type |-> "ValueError"],
                 "value_error_handler")

general_exception_handler(exc) ==
    JSONResponse(500,
                 [error |-> "Internal Server Error",
                  detail |-> "An unexpected error occurred",
                  type |-> exc.cls],
                 "general_exception_handler")

\* the framework's handlers installed by FastAPI(...)
http_exception_handler(exc) ==
    JSONResponse(exc.status_code, [detail |-> exc.msg], "http_exception_handler")

request_validation_exception_handler(exc) ==
    JSONResponse(422, [detail |-> exc.msg], "request_validation_exception_handler")

RunHandler(handler, exc) ==
    CASE handler = "value_error_handler" -> value_error_handler(exc)
      [] handler = "general_exception_handler" -> general_exception_handler(exc)
      [] handler = "http_exception_handler" -> http_exception_handler(exc)
      [] OTHER -> request_validation_exception_handler(exc)

HandlerFor(handlers, cls) == (CHOOSE h \in handlers : h.cls = cls).handler

\* a lookup by the exception's own class only
LookupHandler_exact(handlers, mro) ==
    IF \E h \in handlers : h.cls = Head(mro)
    THEN HandlerFor(handlers, Head(mro))
    ELSE ""

RECURSIVE LookupHandler(_, _)
\* the handler registered for the first class of mro that has one, "" if none
LookupHandler(handlers, mro) ==
    IF mro = <<>> THEN ""
    ELSE IF \E h \in handlers : h.cls = Head(mro)
         THEN HandlerFor(handlers, Head(mro))
         ELSE LookupHandler(handlers, Tail(mro))

\* The application's answer to an exception raised while a request is handled.
\* The handler registered for Exception is the server-error handler: it
\* answers whatever no handler of a more specific class answers.  In debug
\* mode the traceback page takes its place.
Dispatch(app, exc) ==
    LET specific == {h \in app.exception_handlers : h.cls # "Exception"}
        found == LookupHandler(specific, Mro(exc.cls))
    IN  IF found # ""
        THEN RunHandler(found, exc)
        ELSE IF app.debug
             THEN JSONResponse(500, [detail |-> "traceback"], "debug_response")
             ELSE IF \E h \in app.exception_handlers : h.cls = "Exception"
                  THEN RunHandler(HandlerFor(app.exception_handlers, "Exception"), exc)
                  ELSE JSONResponse(500, [detail |-> "Internal Server Error"],
                                    "error_response")

-----------------------------------------------------------------------------
(* Endpoints and request handling.                                         *)

\* root with the service name of health_check
root_wrong_service(s) ==
    [service |-> "template-api", status |-> "operational", version |-> s.version]

\* GET /api/
root(s) ==
    [service |-> s.title, status |-> "operational", version |-> s.version]

\* GET /api/health
health_check(s) ==
    [status |-> "healthy", service |-> "template-api", version |-> s.version]

RECURSIVE MatchRoute(_, _)
\* the endpoint of the first route of the table with this path, "" if none
MatchRoute(routes, path) ==
    IF routes = <<>> THEN ""
    ELSE IF Head(routes).path = path THEN Head(routes).endpoint
         ELSE MatchRoute(Tail(routes), path)

\* The response of the application of Server object s to GET path.  fault is
\* what an endpoint registered by other code does: NoExc, or the exception it
\* raises.  The two endpoints of api.py raise nothing.
Serve(s, path, fault) ==
    LET endpoint == MatchRoute(s.app.routes, path)
    IN  CASE endpoint = "" -> Dispatch(s.app, NotFound)
          [] endpoint = "root" -> JSONResponse(200, root(s), "root")
          [] endpoint = "health_check" -> JSONResponse(200, health_check(s), "health_check")
          [] endpoint = "extra" ->
                 IF fault = NoExc
                 THEN JSONResponse(200, [detail |-> "ok"], "extra")
                 ELSE Dispatch(s.app, fault)
          [] OTHER -> JSONResponse(200, [detail |-> "documentation"], endpoint)

\* the exception raised while the request was handled, NoExc if none
RaisedBy(s, path, fault) ==
    LET endpoint == MatchRoute(s.app.routes, path)
    IN  CASE endpoint = "" -> NotFound
          [] endpoint = "extra" -> fault
          [] OTHER -> NoExc

-----------------------------------------------------------------------------
(* The command line of api.py.                                             *)

\* a flag that is not on the command line
Absent == "<absent>"

DefaultHost == "0.0.0.0"
DefaultPort == 8000
DefaultLogLevel == "info"
DefaultImportString == "api:server.app"
LogLevelChoices == {"critical", "error", "warning", "info", "debug", "trace"}

HostTokens == {Absent, "127.0.0.1"}
PortTokens == { [given |-> FALSE, tok |-> <<>>],
                [given |-> TRUE, tok |-> <<"8", "0", "8", "0">>],
                [given |-> TRUE, tok |-> <<"8", "x">>] }
LogLevelTokens == {Absent, "debug", "verbose"}
ImportStringTokens == {Absent, "app.main:app"}

\* the command lines the model draws from
Argv ==
    [host : HostTokens, port : PortTokens, reload : BOOLEAN, no_reload : BOOLEAN,
     log_level : LogLevelTokens, import_string : ImportStringTokens]

EmptyArgv ==
    [host |-> Absent, port |-> [given |-> FALSE, tok |-> <<>>], reload |-> FALSE,
     no_reload |-> FALSE, log_level |-> Absent, import_string |-> Absent]

Digits == {"0", "1", "2", "3", "4", "5", "6", "7", "8", "9"}

DigitVal(c) ==
    CASE c = "0" -> 0 [] c = "1" -> 1 [] c = "2" -> 2 [] c = "3" -> 3 [] c = "4" -> 4
      [] c = "5" -> 5 [] c = "6" -> 6 [] c = "7" -> 7 [] c = "8" -> 8 [] OTHER -> 9

\* int(tok) succeeds (tokens of decimal digits only are modelled as integers)
IsInt(tok) == tok # <<>> /\ \A i \in 1..Len(tok) : tok[i] \in Digits

RECURSIVE ParseInt(_)
\* int(tok) for a token of decimal digits
ParseInt(tok) ==
    IF tok = <<>> THEN 0
    ELSE ParseInt(SubSeq(tok, 1, Len(tok) - 1)) * 10 + DigitVal(tok[Len(tok)])

\* parser.parse_args(): ok is FALSE when argparse rejects the command line
\* (it prints the usage and exits with status 2)
ParseArgs(a) ==
    [ok |-> /\ (a.port.given => IsInt(a.port.tok))
            /\ (a.log_level # Absent => a.log_level \in LogLevelChoices),
     host |-> IF a.host = Absent THEN DefaultHost ELSE a.host,
     port |-> IF a.port.given /\ IsInt(a.port.tok)
              THEN ParseInt(a.port.tok) ELSE DefaultPort,
     \* --reload is store_true with default True: True with and without the flag
     reload |-> IF a.reload THEN TRUE ELSE TRUE,
     no_reload |-> IF a.no_reload THEN TRUE ELSE FALSE,
     log_level |-> IF a.log_level = Absent THEN DefaultLogLevel ELSE a.log_level,
     import_string |-> IF a.import_string = Absent
                       THEN DefaultImportString ELSE a.import_string]

\* the reload setting without the override by --no-reload
DetermineReload_flag_only(args) == args.reload

\* reload = not args.no_reload if args.no_reload else args.reload
DetermineReload(args) ==
    IF args.no_reload THEN ~args.no_reload ELSE args.reload

-----------------------------------------------------------------------------
(* State.                                                                  *)

NoCall ==
    [op |-> "", args |-> [none |-> TRUE], app_present |-> FALSE,
     raised |-> FALSE, events |-> <<>>]

\* the record of a call of method op on Server object s with outcome r
Call(op, args, s, r) ==
    [op |-> op, args |-> args, app_present |-> ~s.app.is_none,
     raised |-> r.raised, events |-> r.events]

NoLifespan == [state |-> "idle", trace |-> <<>>]

NoResp ==
    [path |-> "", raised |-> NoExc,
     response |-> JSONResponse(0, [detail |-> ""], "")]

Init ==
    /\ name \in {[main |-> n, worker |-> "api"] : n \in {"__main__", "api"}}
    /\ pc = [main |-> "start", worker |-> "none"]
    /\ server = [p \in Proc |-> NoServer]
    /\ argv = EmptyArgv
    /\ lastCall = NoCall
    /\ runCall = NoRun
    /\ included = <<>>
    /\ ls = NoLifespan
    /\ resp = NoResp

-----------------------------------------------------------------------------
(* api.py, lines 18 to 92: the module body, run when the module is loaded. *)

ApiModule ==
    LET s0 == ServerInit
        s1 == get_app(s0).server
        a1 == AppAddMiddleware(s1.app, "CORSMiddleware")
        a2 == AppExceptionHandler(a1, "ValueError", "value_error_handler")
        a3 == AppExceptionHandler(a2, "Exception", "general_exception_handler")
        r0 == get_root_router(s1)
        r1 == RouterGet(r0, "/", "root")
        r2 == RouterGet(r1, "/health", "health_check")
    IN  [s1 EXCEPT !.app = a3, !.root_router = r2]

\* Process p loads api.py: the main process at its start, the worker when the
\* runner imports the module named by the import string "api:server.app".
ModuleBody(p) ==
    /\ \/ p = "main" /\ pc[p] = "start"
       \/ p = "worker" /\ pc[p] = "spawned" /\ runCall.target.value = "api:server.app"
    /\ server' = [server EXCEPT ![p] = ApiModule]
    /\ pc' = [pc EXCEPT ![p] = IF p = "main" THEN "imported" ELSE "serving"]
    /\ lastCall' = IF p = "main"
                   THEN Call("get_app", [none |-> TRUE], ServerInit, get_app(ServerInit))
                   ELSE lastCall
    /\ UNCHANGED <<name, argv, runCall, included, ls, resp>>

\* The worker imports an import string that names another module: the
\* application it serves is not one of this program.
ImportOther ==
    /\ pc["worker"] = "spawned"
    /\ runCall.target.value # "api:server.app"
    /\ pc' = [pc EXCEPT !["worker"] = "foreign"]
    /\ UNCHANGED <<name, server, argv, lastCall, runCall, included, ls, resp>>

-----------------------------------------------------------------------------
(* Server.start_server called in the main process.                         *)

StartArgs(host, port, reload, log_level, import_string) ==
    [host |-> host, port |-> port, reload |-> reload, log_level |-> log_level,
     import_string |-> import_string]

\* The call up to the point where uvicorn.run blocks, or up to the raise.
\* raisedPc is where the main process continues when RuntimeError is raised.
CallStartServer(host, port, reload, log_level, import_string, raisedPc) ==
    LET s == server["main"]
        r == start_server(s, host, port, reload, log_level, import_string)
    IN  /\ Len(s.app.routes) + Len(s.root_router.routes) <= MaxAppRoutes
        /\ lastCall' = Call("start_server",
                            StartArgs(host, port, reload, log_level, import_string), s, r)
        /\ IF r.raised
           THEN /\ pc' = [pc EXCEPT !["main"] = raisedPc]
                /\ UNCHANGED <<server, runCall, included, ls, resp>>
           ELSE /\ server' = [server EXCEPT !["main"] = r.server]
                /\ runCall' = r.run
                /\ included' = s.root_router.routes
                /\ pc' = [main |-> "running",
                          worker |-> IF r.run.reload THEN "spawned" ELSE "none"]
                /\ ls' = NoLifespan
                /\ resp' = NoResp

\* api.py, lines 95 to 159: the __main__ block
MainBlock ==
    /\ pc["main"] = "imported"
    /\ name["main"] = "__main__"
    /\ \E a \in Argv :
          LET args == ParseArgs(a)
          IN  /\ argv' = a
              /\ IF ~args.ok
                 THEN /\ pc' = [pc EXCEPT !["main"] = "exit2"]
                      /\ UNCHANGED <<server, lastCall, runCall, included, ls, resp>>
                 ELSE CallStartServer(args.host, args.port, DetermineReload(args),
                                      args.log_level, args.import_string, "exited")
    /\ UNCHANGED name

-----------------------------------------------------------------------------
(* Other code that imports api and uses its Server object.                 *)

\* such code runs between the load of the module and the runs of the runner
ClientReady ==
    /\ name["main"] = "api"
    /\ pc["main"] \in {"imported", "returned"}

\* a router of such code, with one endpoint
ClientRouter == RouterGet(APIRouter(""), "/x", "extra")
ClientPaths == {"/v1", "/v2"}

AddRouter ==
    /\ ClientReady
    /\ Len(server["main"].root_router.routes) < MaxRootRoutes
    /\ \E path \in ClientPaths :
          LET s == server["main"]
              r == add_router(s, ClientRouter, path)
          IN  /\ server' = [server EXCEPT !["main"] = r.server]
              /\ lastCall' = Call("add_router", [path |-> path], s, r)
    /\ UNCHANGED <<name, pc, argv, runCall, included, ls, resp>>

GetRootRouter ==
    /\ ClientReady
    /\ lastCall' = Call("get_root_router", [none |-> TRUE], server["main"],
                        Return(server["main"], <<>>, NoRun))
    /\ UNCHANGED <<name, pc, server, argv, runCall, included, ls, resp>>

GetApp ==
    /\ ClientReady
    /\ LET s == server["main"]
           r == get_app(s)
       IN  /\ server' = [server EXCEPT !["main"] = r.server]
           /\ lastCall' = Call("get_app", [none |-> TRUE], s, r)
    /\ UNCHANGED <<name, pc, argv, runCall, included, ls, resp>>

SetupRouters ==
    /\ ClientReady
    /\ LET s == server["main"]
           r == setup_routers(s)
       IN  /\ Len(s.app.routes) + Len(s.root_router.routes) <= MaxAppRoutes
           /\ server' = [server EXCEPT !["main"] = r.server]
           /\ lastCall' = Call("_setup_routers", [none |-> TRUE], s, r)
           /\ included' = IF r.raised THEN included ELSE s.root_router.routes
    /\ UNCHANGED <<name, pc, argv, runCall, ls, resp>>

StartServer ==
    /\ ClientReady
    /\ \E reload \in BOOLEAN :
          CallStartServer(DefaultHost, DefaultPort, reload, DefaultLogLevel,
                          DefaultImportString, pc["main"])
    /\ UNCHANGED <<name, argv>>

\* server.app = None: the attribute is public, and the methods guard against it
SetAppNone ==
    /\ ClientReady
    /\ ~server["main"].app.is_none
    /\ server' = [server EXCEPT !["main"].app = None]
    /\ UNCHANGED <<name, pc, argv, lastCall, runCall, included, ls, resp>>

-----------------------------------------------------------------------------
(* The run of the ASGI runner: lifespan, requests, return.                 *)

\* the process whose application object the runner serves
ServingProc == IF runCall.reload THEN "worker" ELSE "main"

\* the runner holds an application object of this program
Serving ==
    /\ pc["main"] = "running"
    /\ runCall.reload => pc["worker"] = "serving"

\* _lifespan with _startup after the yield
lifespan_enter_late(trace) == trace \o <<"yield", "_startup">>
\* _lifespan up to its yield
lifespan_enter(trace) == trace \o <<"_startup", "yield">>

\* _lifespan resumed after its yield
lifespan_exit(trace) == trace \o <<"resume", "_shutdown">>

\* an exception raised into _lifespan at its yield: nothing catches it there
lifespan_throw(trace) == trace \o <<"throw">>

LifespanEnter ==
    /\ Serving
    /\ ls.state = "idle"
    /\ ls' = [state |-> "yielded", trace |-> lifespan_enter(ls.trace)]
    /\ UNCHANGED <<name, pc, server, argv, lastCall, runCall, included, resp>>

LifespanExit ==
    /\ ls.state = "yielded"
    /\ ls' = [state |-> "exited", trace |-> lifespan_exit(ls.trace)]
    /\ UNCHANGED <<name, pc, server, argv, lastCall, runCall, included, resp>>

LifespanThrow ==
    /\ ls.state = "yielded"
    /\ ls' = [state |-> "exited", trace |-> lifespan_throw(ls.trace)]
    /\ UNCHANGED <<name, pc, server, argv, lastCall, runCall, included, resp>>

RequestPaths == {"/api/", "/api/health", "/api/docs", "/api/v1/x", "/missing"}

\* the served application handles GET path
HandleRequest ==
    /\ Serving
    /\ ls.state = "yielded"
    /\ \E path \in RequestPaths, fault \in Raisable \cup {NoExc} :
          LET s == server[ServingProc]
          IN  resp' = [path |-> path, raised |-> RaisedBy(s, path, fault),
                       response |-> Serve(s, path, fault)]
    /\ UNCHANGED <<name, pc, server, argv, lastCall, runCall, included, ls>>

\* uvicorn.run returns; the worker process, if any, is gone
RunnerReturn ==
    /\ pc["main"] = "running"
    /\ ls.state # "yielded"
    /\ pc' = [main |-> IF name["main"] = "__main__" THEN "exited" ELSE "returned",
              worker |-> "none"]
    /\ server' = [server EXCEPT !["worker"] = NoServer]
    /\ UNCHANGED <<name, argv, lastCall, runCall, included, ls, resp>>

-----------------------------------------------------------------------------

Next ==
    \/ \E p \in Proc : ModuleBody(p)
    \/ ImportOther
    \/ MainBlock
    \/ AddRouter
    \/ GetRootRouter
    \/ GetApp
    \/ SetupRouters
    \/ StartServer
    \/ SetAppNone
    \/ LifespanEnter
    \/ LifespanExit
    \/ LifespanThrow
    \/ HandleRequest
    \/ RunnerReturn

Spec == Init /\ [][Next]_vars

\* The program with the public methods of Server only: no direct call of
\* _setup_routers by other code.
PublicNext ==
    \/ \E p \in Proc : ModuleBody(p)
    \/ ImportOther
    \/ MainBlock
    \/ AddRouter
    \/ GetRootRouter
    \/ GetApp
    \/ StartServer
    \/ SetAppNone
    \/ LifespanEnter
    \/ LifespanExit
    \/ LifespanThrow
    \/ HandleRequest
    \/ RunnerReturn

PublicSpec == Init /\ [][PublicNext]_vars

-----------------------------------------------------------------------------
(* Properties.                                                             *)

ScriptRun == name["main"] = "__main__"

\* s is a suffix of t
IsSuffix(s, t) ==
    /\ Len(s) <= Len(t)
    /\ SubSeq(t, Len(t) - Len(s) + 1, Len(t)) = s

\* the places of event e in a trace
Places(trace, e) == {i \in 1..Len(trace) : trace[i] = e}

\* C1: in every run of the api entry point, with and without reload, the
\* application object the runner serves has the root router included: once
\* it handles requests, both the root and the health endpoint are registered
\* on it.
C1_ServedAppHasRootRouter ==
    (ScriptRun /\ Serving /\ ls.state = "yielded") =>
        LET routes == server[ServingProc].app.routes
        IN  /\ MatchRoute(routes, "/api/") = "root"
            /\ MatchRoute(routes, "/api/health") = "health_check"

\* C2: whenever a request reaches the root endpoint or the health endpoint,
\* whatever was requested or called before, the response is 200 with the
\* fixed body: service (the server's title), status and version for root;
\* status "healthy", service "template-api" and the version for health.
\* The server object is the one the module constructed, unchanged.
C2_EndpointsReturnFixedBodies ==
    Serving =>
        LET s == server[ServingProc]
            routed == MatchRoute(s.app.routes, resp.path)
        IN  /\ s.title = "template API" /\ s.version = "0.1.0"
            /\ (resp.path # "" /\ routed = "root") =>
                   resp.response =
                       JSONResponse(200, [service |-> s.title, status |-> "operational",
                                          version |-> s.version], "root")
            /\ (resp.path # "" /\ routed = "health_check") =>
                   resp.response =
                       JSONResponse(200, [status |-> "healthy", service |-> "template-api",
                                          version |-> s.version], "health_check")

\* a request reached the root endpoint after other code had added a router
C2_Witness ==
    /\ Serving
    /\ resp.response.via = "root"
    /\ Len(included) > 2

\* C3: a call of add_router, get_app, _setup_routers or start_server that
\* finds no application object raises RuntimeError, includes no router and
\* does not invoke the runner; RuntimeError is raised in no other case, and
\* no runner runs while the application object is absent.
C3_AbsentAppRaises ==
    /\ (lastCall.op \in {"add_router", "get_app", "_setup_routers", "start_server"}
        /\ ~lastCall.app_present) =>
           /\ lastCall.raised
           /\ lastCall.events = <<>>
    /\ lastCall.raised => ~lastCall.app_present
    /\ server["main"].app.is_none => pc["main"] # "running"

\* start_server was called without an application object
C3_Witness ==
    /\ lastCall.op = "start_server"
    /\ ~lastCall.app_present
    /\ lastCall.raised

\* C4: the reload value the launcher passes to start_server is False when
\* --no-reload is on the command line, with or without --reload, and True
\* otherwise.
C4_NoReloadOverrides ==
    (ScriptRun /\ lastCall.op = "start_server") =>
        lastCall.args.reload = (IF argv.no_reload THEN FALSE ELSE TRUE)

\* both flags were given
C4_Witness ==
    /\ ScriptRun
    /\ lastCall.op = "start_server"
    /\ argv.reload /\ argv.no_reload
    /\ ~lastCall.args.reload

\* C5: the host, port and log level of the one uvicorn.run call of the
\* launcher are the values of the command line (0.0.0.0, 8000 and info for
\* the flags not given), in the reload and in the non-reload branch; a log
\* level outside the choices ends the launcher before start_server is called.
C5_ArgumentsForwarded ==
    (ScriptRun /\ pc["main"] \notin {"start", "imported"}) =>
        /\ (argv.log_level \notin LogLevelChoices \cup {Absent}) =>
               /\ pc["main"] = "exit2"
               /\ lastCall.op # "start_server"
               /\ ~runCall.called
        /\ pc["main"] # "exit2" =>
               /\ runCall.called
               /\ Cardinality(Places(lastCall.events, "uvicorn.run")) = 1
               /\ runCall.host = (IF argv.host = Absent THEN "0.0.0.0" ELSE argv.host)
               /\ runCall.log_level =
                      (IF argv.log_level = Absent THEN "info" ELSE argv.log_level)
               /\ ~argv.port.given => runCall.port = 8000
               /\ argv.port.tok = <<"8", "0", "8", "0">> => runCall.port = 8080

\* all three flags were given and reload was switched off
C5_Witness ==
    /\ ScriptRun
    /\ runCall.called /\ ~runCall.reload
    /\ runCall.host = "127.0.0.1" /\ runCall.port = 8080 /\ runCall.log_level = "debug"

\* C6: in the lifespan context _startup has run exactly once, before the
\* yield, whenever control has been yielded; _shutdown runs at most once,
\* only after the context was resumed from its yield, and never without a
\* _startup before it.
C6_LifespanOrder ==
    LET t == ls.trace
    IN  /\ ls.state = "yielded" => Places(t, "yield") # {}
        /\ \A y \in Places(t, "yield") :
               /\ Cardinality(Places(t, "_startup")) = 1
               /\ \A u \in Places(t, "_startup") : u < y
        /\ Cardinality(Places(t, "_shutdown")) <= 1
        /\ \A d \in Places(t, "_shutdown") :
               /\ \E r \in Places(t, "resume") : r < d
               /\ \E y \in Places(t, "yield") : y < d
               /\ \E u \in Places(t, "_startup") : u < d

\* the context was entered and left normally
C6_Witness ==
    /\ ls.state = "exited"
    /\ Places(ls.trace, "_shutdown") # {}

\* C7: a start_server call on an existing application includes the root
\* router into the application and then invokes the runner, once: with the
\* import string and reload=True when reload is true, with the application
\* object and reload=False when it is not.
C7_IncludeThenRun ==
    (lastCall.op = "start_server" /\ lastCall.app_present) =>
        /\ ~lastCall.raised
        /\ lastCall.events = <<"app.include_router", "uvicorn.run">>
        /\ runCall.called
        /\ included = server["main"].root_router.routes
        /\ ~server["main"].app.is_none => IsSuffix(included, server["main"].app.routes)
        /\ lastCall.args.reload =>
               /\ runCall.target = [kind |-> "import_string",
                                    value |-> lastCall.args.import_string]
               /\ runCall.reload
        /\ ~lastCall.args.reload =>
               /\ runCall.target.kind = "app"
               /\ runCall.target.value # lastCall.args.import_string
               /\ ~runCall.reload

\* start_server runs the application object itself
C7_Witness ==
    /\ lastCall.op = "start_server"
    /\ lastCall.app_present
    /\ ~lastCall.args.reload
    /\ pc["main"] = "running"

\* C8 as stated: every ValueError or subclass is answered by the ValueError
\* handler with 400 and the message as detail, every other Exception by the
\* general handler with 500 and the constant detail.
C8_DispatchTotalExclusive ==
    resp.raised # NoExc =>
        IF IsSubclass(resp.raised.cls, "ValueError")
        THEN /\ resp.response.via = "value_error_handler"
             /\ resp.response.status_code = 400
             /\ resp.response.content.detail = resp.raised.msg
        ELSE /\ resp.response.via = "general_exception_handler"
             /\ resp.response.status_code = 500
             /\ resp.response.content.detail = "An unexpected error occurred"

\* C8 amended: every ValueError or subclass is answered by the ValueError
\* handler with 400 and the message as detail; HTTPException and
\* RequestValidationError are answered by the handlers the framework
\* installs for them (the exception's own status code, and 422); every
\* other Exception is answered by the general handler with 500 and the
\* constant detail.  No ValueError is answered with 500.
C8_DispatchByClass ==
    resp.raised # NoExc =>
        CASE IsSubclass(resp.raised.cls, "ValueError") ->
                 /\ resp.response.via = "value_error_handler"
                 /\ resp.response.status_code = 400
                 /\ resp.response.content.detail = resp.raised.msg
          [] resp.raised.cls = "HTTPException" ->
                 /\ resp.response.via = "http_exception_handler"
                 /\ resp.response.status_code = resp.raised.status_code
          [] resp.raised.cls = "RequestValidationError" ->
                 /\ resp.response.via = "request_validation_exception_handler"
                 /\ resp.response.status_code = 422
          [] OTHER ->
                 /\ resp.response.via = "general_exception_handler"
                 /\ resp.response.status_code = 500
                 /\ resp.response.content.detail = "An unexpected error occurred"

\* a subclass of ValueError was raised and answered with 400
C8_Witness ==
    /\ resp.raised.cls = "UnicodeDecodeError"
    /\ resp.response.status_code = 400

\* C9: once the lifespan context has been left after a completed _startup,
\* normally or by an exception raised into it, _shutdown has run.
C9_ShutdownOnEveryExit ==
    (ls.state = "exited" /\ Places(ls.trace, "_startup") # {}) =>
        Places(ls.trace, "_shutdown") # {}

\* C10: after any sequence of add_router, get_root_router, get_app and
\* start_server calls, every route that was on the root router at the last
\* inclusion is in the application's route table exactly once (as often as
\* it was registered on the root router), under the /api prefix.
C10_InclusionIdempotent ==
    (lastCall.op = "start_server" /\ ~lastCall.raised /\ ~server["main"].app.is_none) =>
        \A r \in Range(included) :
            /\ Count(server["main"].app.routes, r) = Count(included, r)
            /\ r.path \in {"/api/", "/api/health"}
                          \cup {"/api" \o c \o "/x" : c \in ClientPaths}

====
